---- MODULE Spec2Model ----
(***************************************************************************)
(* Model of scripts/combine_results.py: the report aggregation script.     *)
(*                                                                         *)
(*   Spec        main(): sorting, metrics table, image aggregation loop    *)
(*   SpecConcat  concat_images() applied to bounded lists of sequences     *)
(*   SpecFfmpeg  ffmpeg_save_gif() as a step machine around the process    *)
(*   SpecStats   load_metrics() + the mean / standard error of main()      *)
(*                                                                         *)
(* An image is a record [h, w, id]: shape[0], shape[1] and the identity of *)
(* its pixel content.  A number that is not an integer (a mean, a squared  *)
(* standard error) is an exact rational [num, den] with den > 0.           *)
(***************************************************************************)
EXTENDS Integers, Sequences, FiniteSets, TLC

VARIABLES
    \* ---- concat_images ----
    all_images,      \* argument: sequence of sequences of images
    concat_result,   \* [status, frames] once the call is over
    cpc,             \* "call" | "done"
    \* ---- ffmpeg_save_gif ----
    ff_images,       \* argument: frames to encode
    ff_fname,        \* argument: gif_fname
    ff_pc,           \* position inside ffmpeg_save_gif
    ff_spawned,      \* number of Popen calls made
    ff_written,      \* what has been written to proc.stdin, in order
    ff_returncode,   \* proc.returncode (Unbound until communicate returns)
    ff_stderr,       \* err returned by communicate
    ff_error,        \* exception raised by the call (type "none" if none)
    \* ---- load_metrics / statistics ----
    st_file,         \* rows of the csv file
    st_pc,           \* "load" | "done"
    st_mean,         \* np.mean(metric)
    st_se_sq,        \* (np.std(metric) / np.sqrt(num_samples)) squared
    st_num_samples,  \* len(metric)
    \* ---- main ----
    args,            \* parsed command line
    disk,            \* metrics files read so far: <<dir, pair>> -> csv rows
    headings,        \* headings added to the page
    method_names,
    method_dirs,
    method_ids,      \* Unbound until line 155 assigns it
    pair_names,      \* zip(task_names, metric_names) of lines 160-168
    table_rows,      \* rows added to the metrics table
    num_samples,     \* Unbound until line 195 assigns it
    task_names,      \* tasks of the image phase (line 210)
    sample_ind,
    task_ind,
    ims,             \* cells of the image row under construction
    gifs,            \* number of animations encoded so far
    last_gif,        \* the animation encoded last
    image_header,    \* header rows of the image table (lines 267-268)
    image_rows,      \* rows added by webpage.add_images
    saves,           \* one entry per webpage.save()
    pc,
    error

concat_vars == <<all_images, concat_result, cpc>>
ffmpeg_vars == <<ff_images, ff_fname, ff_pc, ff_spawned, ff_written,
                 ff_returncode, ff_stderr, ff_error>>
stats_vars  == <<st_file, st_pc, st_mean, st_se_sq, st_num_samples>>
main_vars   == <<args, disk, headings, method_names, method_dirs, method_ids,
                 pair_names, table_rows, num_samples, task_names, sample_ind,
                 task_ind, ims, gifs, last_gif, image_header,
                 image_rows, saves, pc, error>>
vars == <<concat_vars, ffmpeg_vars, stats_vars, main_vars>>

\* ---------------------------------------------------------------- bounds
MaxSeqs    == 2   \* sequences handed to concat_images
MaxFrames  == 3   \* frames handed to concat_images, all sequences together
MaxDim     == 2   \* image height and width range over 1..MaxDim

\* ------------------------------------------------------- Python values
\* a name that holds no value yet (never assigned, or None), and one that does
Unbound  == [bound |-> FALSE]
Bound(v) == [bound |-> TRUE, value |-> v]

Range(s) == {s[i] : i \in DOMAIN s}

SeqsUpTo(S, n) == UNION {[1..k -> S] : k \in 0..n}

\* ========================================================================
\* concat_images
\* ========================================================================

Shapes == (1..MaxDim) \X (1..MaxDim)

Shape(image) == <<image.h, image.w>>          \* image.shape[:2]

RECURSIVE Flatten(_)
Flatten(ss) == IF ss = <<>> THEN <<>> ELSE Head(ss) \o Flatten(Tail(ss))

PyMin(a, b) == IF b < a THEN b ELSE a

NoShape == <<>>       \* min_height, min_width = None, None

\* lines 89-96: the running minimum over every image of every sequence
RECURSIVE MinShape(_, _)
MinShape(images, acc) ==
    IF images = <<>> THEN acc
    ELSE LET image == Head(images)
         IN MinShape(Tail(images),
                IF acc = NoShape
                THEN Shape(image)
                ELSE <<PyMin(acc[1], image.h), PyMin(acc[2], image.w)>>)

\* cv2.resize(src, dsize): dsize is (width, height); the result has
\* shape (dsize[1], dsize[0])
cv2_resize(image, dsize) == [image EXCEPT !.h = dsize[2], !.w = dsize[1]]

\* lines 98-101
maybe_resize(image, min_height, min_width) ==
    IF Shape(image) # <<min_height, min_width>>
    THEN cv2_resize(image, <<min_height, min_width>>)
    ELSE image

\* zip(*seqs): as many tuples as the shortest sequence has elements
ZipLen(seqs) ==
    IF seqs = <<>> THEN 0
    ELSE CHOOSE n \in {Len(seqs[i]) : i \in DOMAIN seqs} :
            \A i \in DOMAIN seqs : n <= Len(seqs[i])

RECURSIVE SumW(_)
SumW(images) == IF images = <<>> THEN 0 ELSE Head(images).w + SumW(Tail(images))

\* np.concatenate(images, axis=1): every dimension but the second must agree
np_concatenate(images) ==
    IF \A i \in DOMAIN images : images[i].h = images[1].h
    THEN [ok |-> TRUE, h |-> images[1].h, w |-> SumW(images),
          parts |-> [i \in DOMAIN images |-> images[i].id]]
    ELSE [ok |-> FALSE]       \* ValueError

\* concat_images with a guard that rejects an empty argument
concat_images_guarded(seqs) ==
    LET mins    == MinShape(Flatten(seqs), NoShape)
        resized == [i \in DOMAIN seqs |->
                      [t \in DOMAIN seqs[i] |->
                          maybe_resize(seqs[i][t], mins[1], mins[2])]]
        frames  == [t \in 1..ZipLen(resized) |->
                      np_concatenate([i \in DOMAIN resized |-> resized[i][t]])]
    IN  IF seqs = <<>> \/ \E t \in DOMAIN frames : ~frames[t].ok
        THEN [status |-> "ValueError", frames |-> <<>>]
        ELSE [status |-> "ok", frames |-> frames]

\* lines 85-109
concat_images(seqs) ==
    LET mins    == MinShape(Flatten(seqs), NoShape)
        resized == [i \in DOMAIN seqs |->
                      [t \in DOMAIN seqs[i] |->
                          maybe_resize(seqs[i][t], mins[1], mins[2])]]
        frames  == [t \in 1..ZipLen(resized) |->
                      np_concatenate([i \in DOMAIN resized |-> resized[i][t]])]
    IN  IF \E t \in DOMAIN frames : ~frames[t].ok
        THEN [status |-> "ValueError", frames |-> <<>>]
        ELSE [status |-> "ok", frames |-> frames]

\* the images of a list of sequences, each stamped with its position
Stamp(shapes) ==
    [i \in DOMAIN shapes |->
        [t \in DOMAIN shapes[i] |->
            [h |-> shapes[i][t][1], w |-> shapes[i][t][2], id |-> <<i, t>>]]]

RECURSIVE SumLens(_)
SumLens(lens) == IF lens = <<>> THEN 0 ELSE Head(lens) + SumLens(Tail(lens))

\* the lists of sequences of shapes whose lengths are lens
RECURSIVE ShapeLists(_)
ShapeLists(lens) ==
    IF lens = <<>> THEN {<<>>}
    ELSE {<<first>> \o rest : first \in [1..Head(lens) -> Shapes],
                              rest \in ShapeLists(Tail(lens))}

\* the lengths of the sequences handed to concat_images
ConcatLens == {l \in SeqsUpTo(0..MaxFrames, MaxSeqs) : SumLens(l) <= MaxFrames}

ConcatCall ==
    /\ cpc = "call"
    /\ concat_result' = concat_images(all_images)
    /\ cpc' = "done"
    /\ UNCHANGED <<all_images, ffmpeg_vars, stats_vars, main_vars>>

\* ========================================================================
\* ffmpeg_save_gif
\* ========================================================================

MaxGifFrames == 3   \* frames handed to ffmpeg_save_gif
MaxReturn    == 2   \* process exit statuses range over 0..MaxReturn
DefaultFps   == 4   \* fps=4 in the signature

FrameIds   == {1, 2}              \* distinguishable pixel contents
StderrText == {"", "diag"}        \* what the process may print on stderr

\* image.tostring(): the raw bytes, h*w*3 of them, without the shape
tostring(image) == [nbytes |-> image.h * image.w * 3, data |-> image.id]

\* '%.02f' % fps, in hundredths
Fmt2(x) == x * 100

\* lines 65-74: the arguments that vary (the flags are fixed text)
Cmd(gif_fname, images, fps) ==
    [prog |-> "ffmpeg", r |-> Fmt2(fps),
     s |-> <<images[1].w, images[1].h>>, out |-> gif_fname]

\* lines 62-75: build the command line and spawn the process
FfSpawn ==
    /\ ff_pc = "start"
    /\ IF ff_images = <<>>
       THEN /\ ff_error' = [type |-> "IndexError", msg |-> <<>>]  \* images[0]
            /\ ff_pc' = "raised"
            /\ UNCHANGED ff_spawned
       ELSE /\ ff_spawned' = ff_spawned + 1
            /\ ff_pc' = "write"
            /\ UNCHANGED ff_error
    /\ UNCHANGED <<ff_images, ff_fname, ff_written, ff_returncode, ff_stderr,
                   concat_vars, stats_vars, main_vars>>

\* lines 76-77: one iteration of the write loop
FfWrite ==
    /\ ff_pc = "write"
    /\ Len(ff_written) < Len(ff_images)
    /\ ff_written' = Append(ff_written, tostring(ff_images[Len(ff_written) + 1]))
    /\ UNCHANGED <<ff_images, ff_fname, ff_pc, ff_spawned, ff_returncode,
                   ff_stderr, ff_error, concat_vars, stats_vars, main_vars>>

\* line 77 when the process has already gone away: the write raises
FfBrokenPipe ==
    /\ ff_pc = "write"
    /\ Len(ff_written) < Len(ff_images)
    /\ ff_error' = [type |-> "BrokenPipeError", msg |-> <<>>]
    /\ ff_pc' = "raised"
    /\ UNCHANGED <<ff_images, ff_fname, ff_spawned, ff_written, ff_returncode,
                   ff_stderr, concat_vars, stats_vars, main_vars>>

\* line 78: proc.communicate() closes stdin and waits for the exit status
FfCommunicate ==
    /\ ff_pc = "write"
    /\ Len(ff_written) = Len(ff_images)
    /\ \E rc \in 0..MaxReturn, err \in StderrText :
          /\ ff_returncode' = Bound(rc)
          /\ ff_stderr' = err
    /\ ff_pc' = "check"
    /\ UNCHANGED <<ff_images, ff_fname, ff_spawned, ff_written, ff_error,
                   concat_vars, stats_vars, main_vars>>

\* the test of line 79 written as `proc.returncode < 0` (killed by a signal)
FfFailed_signal(returncode) == returncode < 0

\* line 79: `if proc.returncode:`
FfFailed(returncode) == returncode # 0

\* line 80: '\n'.join([' '.join(cmd), err.decode('utf8')])
FfMessage(cmd, err) == <<cmd, err>>

\* lines 79-82
FfCheck ==
    /\ ff_pc = "check"
    /\ IF FfFailed(ff_returncode.value)
       THEN /\ ff_error' = [type |-> "IOError",
                            msg |-> FfMessage(Cmd(ff_fname, ff_images, DefaultFps),
                                              ff_stderr)]
            /\ ff_pc' = "raised"
       ELSE /\ ff_pc' = "returned"
            /\ UNCHANGED ff_error
    /\ UNCHANGED <<ff_images, ff_fname, ff_spawned, ff_written, ff_returncode,
                   ff_stderr, concat_vars, stats_vars, main_vars>>

FfFrames ==
    {[h |-> s[1], w |-> s[2], id |-> d] : s \in {<<1, 2>>, <<2, 1>>}, d \in FrameIds}

\* ========================================================================
\* load_metrics and the statistics of lines 193-199
\* ========================================================================

MaxStatRows == 2   \* data rows of a metrics file
MaxStatCols == 2   \* data columns between the id and the mean column
MaxVal      == 2   \* data cells range over 0..MaxVal

RECURSIVE GCD(_, _)
GCD(a, b) == IF b = 0 THEN a ELSE GCD(b, a % b)

\* the rational n/d in lowest terms (n >= 0, d > 0)
Rat(n, d) == LET g == GCD(n, d) IN [num |-> n \div g, den |-> d \div g]

RatLess(a, b) == a.num * b.den < b.num * a.den

\* lines 13-17: drop the header row, the first and the last column
load_metrics(rows) ==
    [i \in 1..(Len(rows) - 1) |->
        [j \in 1..(Len(rows[i + 1]) - 2) |-> rows[i + 1][j + 1]]]

RECURSIVE SumSeq(_)
SumSeq(s) == IF s = <<>> THEN 0 ELSE Head(s) + SumSeq(Tail(s))

Cells(metric) == Flatten(metric)

\* np.mean(metric): over every cell of the 2-D array
np_mean(metric) == Rat(SumSeq(Cells(metric)), Len(Cells(metric)))

\* np.std(metric) squared: mean(abs(x - x.mean())**2) over every cell
np_std_sq(metric) ==
    LET xs == Cells(metric)
        n  == Len(xs)
        s  == SumSeq(xs)
    IN  Rat(SumSeq([k \in 1..n |-> (n * xs[k] - s) * (n * xs[k] - s)]), n * n * n)

\* line 196 with num_samples taken as the number of cells (metric.size)
metric_se_sq_size(metric) ==
    LET v == np_std_sq(metric) IN Rat(v.num, v.den * Len(Cells(metric)))

\* line 196 squared: (np.std(metric) / np.sqrt(num_samples))**2
metric_se_sq(metric) ==
    LET v == np_std_sq(metric) IN Rat(v.num, v.den * Len(metric))

\* '%.4f' % x for a rational x >= 0: the number of ten-thousandths, rounded
\* to nearest, ties to even
Fmt4(x) ==
    LET n == x.num * 10000
        q == n \div x.den
        r == n % x.den
    IN  [fmt |-> "%.4f",
         units |-> IF 2 * r > x.den \/ (2 * r = x.den /\ q % 2 = 1) THEN q + 1 ELSE q]

\* '%.4f' % metric_se, kept as the exact radicand of the value printed
Fmt4Sqrt(x_sq) == [fmt |-> "%.4f", sqrt_of |-> x_sq]

\* a csv file: header row, then rows of <<id, data ..., mean>>
CsvFile(data) ==
    << [j \in 1..(Len(data[1]) + 2) |-> "h"] >>
    \o [i \in DOMAIN data |-> <<1000 + i - 1>> \o data[i] \o <<2000 + i>>]

\* the data cells of a metrics file of r rows and c columns
StatData(r, c) == [1..r -> [1..c -> 0..MaxVal]]

\* lines 193-196 for one table
StatsCompute ==
    /\ st_pc = "load"
    /\ LET metric == load_metrics(st_file)
       IN  /\ st_mean' = np_mean(metric)
           /\ st_num_samples' = Len(metric)
           /\ st_se_sq' = metric_se_sq(metric)
    /\ st_pc' = "done"
    /\ UNCHANGED <<st_file, concat_vars, ffmpeg_vars, main_vars>>

\* ========================================================================
\* main
\* ========================================================================

MaxMethods == 3   \* method directories
MaxPairs   == 1   \* (task, metric) csv files per method
MaxSamples == 2   \* rows of a metrics file read by main
MaxBatch   == 2   \* --batch_size ranges over 1..MaxBatch
MaxTasks   == 1   \* tasks that have an outputs directory
MaxKinds   == 2   \* output kinds of one (task, sample)

\* the p-th metrics file in sorted path order: <task>/metrics/<metric>.csv
PairName(p) == [task |-> ((p - 1) \div 2) + 1, metric |-> ((p - 1) % 2) + 1]

\* the metrics file of pair p of a method evaluated on r samples: r rows,
\* two data columns
MetricFile(r, p) == CsvFile([i \in 1..r |-> [j \in 1..2 |-> (i + j + p) % 3]])

\* the metrics files of the directories dirs for the pairs pairs: a method
\* has one row per sample in each of its files
MetricFiles(dirs, pairs) ==
    {[k \in dirs \X pairs |-> MetricFile(rows[k[1]], k[2])] :
        rows \in [dirs -> 1..MaxSamples]}

\* the numbers of input images a (task, sample) may have
InputCounts == {0, 1}

\* the frame shapes the methods may have written
MainShapes == {<<1, 2>>, <<2, 2>>}

DirKey(method_dir) == method_dir[2]        \* the directory under results_dir

Crash(type, line) ==
    /\ pc' = "crashed"
    /\ error' = [type |-> type, line |-> line]

\* the files read now, added to those read before
ReadFiles(files) ==
    [k \in DOMAIN disk \cup DOMAIN files |->
        IF k \in DOMAIN disk THEN disk[k] ELSE files[k]]

Agrees(files) == \A k \in DOMAIN files \cap DOMAIN disk : files[k] = disk[k]

\* the comparison of sorted(..., reverse=True)
TupleLess_reverse(a, b) ==
    IF a[1] # b[1] THEN RatLess(b[1], a[1])
    ELSE IF a[2] # b[2] THEN b[2] < a[2]
    ELSE IF a[3] # b[3] THEN b[3] < a[3]
    ELSE DirKey(b[4]) < DirKey(a[4])

\* a < b on the tuples (mean, index, name, dir) of line 156
TupleLess(a, b) ==
    IF a[1] # b[1] THEN RatLess(a[1], b[1])
    ELSE IF a[2] # b[2] THEN a[2] < b[2]
    ELSE IF a[3] # b[3] THEN a[3] < b[3]
    ELSE DirKey(a[4]) < DirKey(b[4])

\* sorted(): stable, an element goes before the first one it is less than
RECURSIVE Insert(_, _)
Insert(x, s) ==
    IF s = <<>> THEN <<x>>
    ELSE IF TupleLess(x, Head(s)) THEN <<x>> \o s
    ELSE <<Head(s)>> \o Insert(x, Tail(s))

RECURSIVE sorted(_)
sorted(s) ==
    IF s = <<>> THEN <<>>
    ELSE Insert(s[Len(s)], sorted(SubSeq(s, 1, Len(s) - 1)))

\* lines 149-157
SortMethods ==
    /\ pc = "sort"
    /\ IF ~args.sort_by.bound
       THEN /\ pc' = "discover"
            /\ UNCHANGED <<disk, headings, method_names, method_dirs,
                           method_ids, error>>
       ELSE IF method_names = <<>>
       THEN /\ Crash("ValueError", 155)           \* nothing to unpack
            /\ UNCHANGED <<disk, headings, method_names, method_dirs, method_ids>>
       ELSE \E files \in MetricFiles({DirKey(method_dirs[i]) : i \in DOMAIN method_dirs},
                                      {args.sort_by.value}) :
              LET sort_criterion ==
                      [i \in DOMAIN method_dirs |->
                          np_mean(load_metrics(
                              files[<<DirKey(method_dirs[i]), args.sort_by.value>>]))]
                  zipped == [i \in DOMAIN method_names |->
                              <<sort_criterion[i], i - 1,
                                method_names[i], method_dirs[i]>>]
                  s == sorted(zipped)
              IN  /\ disk' = ReadFiles(files)
                  /\ method_ids'   = Bound([i \in DOMAIN s |-> s[i][2]])
                  /\ method_names' = [i \in DOMAIN s |-> s[i][3]]
                  /\ method_dirs'  = [i \in DOMAIN s |-> s[i][4]]
                  /\ headings' = Append(headings, [h3 |-> args.sort_by.value])
                  /\ pc' = "discover"
                  /\ UNCHANGED error
    /\ UNCHANGED <<args, pair_names, table_rows, num_samples, task_names,
                   sample_ind, task_ind, ims, gifs, last_gif,
                   image_header, image_rows, saves,
                   concat_vars, ffmpeg_vars, stats_vars>>

\* lines 160-168: the metrics files of the first method, in sorted order
Discover ==
    /\ pc = "discover"
    /\ IF method_dirs = <<>>
       THEN /\ Crash("IndexError", 160)           \* method_dirs[0]
            /\ UNCHANGED pair_names
       ELSE \E P \in 0..MaxPairs :
              /\ args.sort_by.bound => P >= args.sort_by.value
              /\ pair_names' = [p \in 1..P |-> PairName(p)]
              /\ pc' = "table"
              /\ UNCHANGED error
    /\ UNCHANGED <<args, disk, headings, method_names, method_dirs, method_ids,
                   table_rows, num_samples, task_names, sample_ind, task_ind,
                   ims, gifs, last_gif, image_header, image_rows,
                   saves, concat_vars, ffmpeg_vars, stats_vars>>

\* lines 172-180: consecutive pairs of the same task share a header cell
RECURSIVE HeaderCells(_, _, _, _)
HeaderCells(pairs, txts, colspans, inc) ==
    IF pairs = <<>> THEN [txts |-> txts, colspans |-> Bound(colspans)]
    ELSE IF Head(pairs).task # txts[Len(txts)]
    THEN HeaderCells(Tail(pairs), Append(txts, Head(pairs).task),
                     Append(colspans, inc), inc)
    ELSE HeaderCells(Tail(pairs), txts,
                     [colspans EXCEPT ![Len(colspans)] = @ + inc], inc)

\* lines 182-186
SubheaderCells(pairs, show_se) ==
    [txts |-> <<[label |-> "id"], [label |-> "method"]>> \o
              Flatten([p \in DOMAIN pairs |->
                  <<[label |-> "mean", metric |-> pairs[p].metric]>> \o
                  (IF show_se THEN <<[label |-> "se", metric |-> pairs[p].metric]>>
                   ELSE <<>>)]),
     colspans |-> Unbound]

\* lines 190-200: the cells of one method's row
MetricTxts(method_id, method_name, metrics, show_se) ==
    <<[id |-> method_id], [name |-> method_name]>> \o
    Flatten([p \in DOMAIN metrics |->
        <<Fmt4(np_mean(metrics[p]))>> \o
        (IF show_se THEN <<Fmt4Sqrt(metric_se_sq(metrics[p]))>> ELSE <<>>)])

\* num_samples taken from the first table loaded instead
LastLoaded_first(dirs, P) == <<DirKey(dirs[1]), 1>>

\* the table whose length num_samples holds after the loops of lines
\* 189-202: the one loaded last
LastLoaded(dirs, P) == <<DirKey(dirs[Len(dirs)]), P>>

Snapshot(table, images) == [table |-> Len(table), images |-> Len(images)]

\* lines 171-203
BuildTable ==
    /\ pc = "table"
    /\ LET header == <<HeaderCells(pair_names, <<0>>, <<2>>,
                                   IF args.show_se THEN 2 ELSE 1),
                       SubheaderCells(pair_names, args.show_se)>>
           P == Len(pair_names)
       IN  IF ~method_ids.bound
           THEN /\ table_rows' = header
                /\ Crash("UnboundLocalError", 189)    \* method_ids
                /\ UNCHANGED <<disk, num_samples, saves>>
           ELSE \E files \in MetricFiles({DirKey(method_dirs[i]) : i \in DOMAIN method_dirs},
                                          1..P) :
                  /\ Agrees(files)
                  /\ disk' = ReadFiles(files)
                  /\ table_rows' = header \o
                       [i \in DOMAIN method_dirs |->
                           [txts |-> MetricTxts(method_ids.value[i], method_names[i],
                                        [p \in 1..P |-> load_metrics(
                                            files[<<DirKey(method_dirs[i]), p>>])],
                                        args.show_se),
                            colspans |-> Unbound]]
                  /\ num_samples' =
                        IF P >= 1
                        THEN Bound(Len(load_metrics(files[LastLoaded(method_dirs, P)])))
                        ELSE num_samples
                  /\ saves' = Append(saves, Snapshot(table_rows', image_rows))
                  /\ pc' = "only_metrics"
                  /\ UNCHANGED error
    /\ UNCHANGED <<args, headings, method_names, method_dirs, method_ids,
                   pair_names, task_names, sample_ind, task_ind, ims,
                   gifs, last_gif, image_header, image_rows,
                   concat_vars, ffmpeg_vars, stats_vars>>

\* lines 205-206
CheckOnlyMetrics ==
    /\ pc = "only_metrics"
    /\ pc' = IF args.only_metrics THEN "done" ELSE "images"
    /\ UNCHANGED <<args, disk, headings, method_names, method_dirs, method_ids,
                   pair_names, table_rows, num_samples, task_names, sample_ind,
                   task_ind, ims, gifs, last_gif, image_header,
                   image_rows, saves, error,
                   concat_vars, ffmpeg_vars, stats_vars>>

\* lines 208-218: the tasks of the first method that have an outputs directory
StartImages ==
    /\ pc = "images"
    /\ \E T \in 0..MaxTasks : task_names' = [t \in 1..T |-> t]
    /\ sample_ind' = 0
    /\ pc' = "sample"
    /\ UNCHANGED <<args, disk, headings, method_names, method_dirs, method_ids,
                   pair_names, table_rows, num_samples, task_ind, ims,
                   gifs, last_gif, image_header, image_rows,
                   saves, error, concat_vars, ffmpeg_vars, stats_vars>>

\* lines 219-224: the loop test and the start of one sample's row
BeginSample ==
    /\ pc = "sample"
    /\ IF ~num_samples.bound
       THEN /\ Crash("UnboundLocalError", 219)        \* num_samples
            /\ UNCHANGED <<ims, task_ind>>
       ELSE IF sample_ind < num_samples.value
       THEN /\ ims' = <<>>
            /\ task_ind' = 1
            /\ pc' = "task"
            /\ UNCHANGED error
       ELSE /\ pc' = "final_save"
            /\ UNCHANGED <<ims, task_ind, error>>
    /\ UNCHANGED <<args, disk, headings, method_names, method_dirs, method_ids,
                   pair_names, table_rows, num_samples, task_names, sample_ind,
                   gifs, last_gif, image_header, image_rows,
                   saves, concat_vars, ffmpeg_vars, stats_vars>>

\* lines 239-246 with all_output_images reset for every output name
LoadOutputs_reset(M, K, shapes) ==
    [m \in 1..(IF K = 0 THEN 0 ELSE M) |->
        <<[h |-> shapes[m][1], w |-> shapes[m][2], id |-> <<K, m>>]>>]

\* lines 239-246 for M method directories: one frame sequence per (output
\* name, method), output names outermost; shapes[m] is the shape of the
\* frames method m wrote
LoadOutputs(M, K, shapes) ==
    [n \in 1..(K * M) |->
        LET k == ((n - 1) \div M) + 1
            m == ((n - 1) % M) + 1
        IN  <<[h |-> shapes[m][1], w |-> shapes[m][2], id |-> <<k, m>>]>>]

\* lines 239-248: the sequences loaded for K output kinds and their composite
Composite(M, K, shapes) ==
    LET all_output_images == LoadOutputs(M, K, shapes)
        concat == concat_images(all_output_images)
    IN  [methods |-> M, kinds |-> K,
         status |-> concat.status,
         nseqs |-> Len(all_output_images),
         nframes |-> Len(concat.frames)]

\* what lines 239-248 can come to, for each number of methods and of output
\* kinds, over the shapes of the frames the methods wrote
Composites ==
    UNION {{Composite(M, K, shapes) : K \in 0..MaxKinds,
                                      shapes \in [1..M -> MainShapes]} :
             M \in 1..MaxMethods}

\* the animation of one (task, sample), once it is encoded (lines 250-264)
Encoded(I, K, composite) ==
    /\ gifs' = gifs + 1
    /\ last_gif' = [task |-> task_names[task_ind],
                    sample |-> sample_ind,
                    kinds |-> K,              \* named after the last of them
                    nseqs |-> composite.nseqs,
                    nframes |-> composite.nframes]
    /\ ims' = Append(ims, [task |-> task_names[task_ind],
                           inputs |-> I,
                           output |-> "gif"])
    /\ task_ind' = task_ind + 1
    /\ UNCHANGED <<pc, error>>

\* lines 226-264: one task of one sample
TaskBody ==
    /\ pc = "task"
    /\ task_ind <= Len(task_names)
    /\ \E I \in InputCounts :
         IF I = 0
         THEN /\ Crash("IndexError", 31)           \* save_images: image_fnames[0]
              /\ UNCHANGED <<task_ind, ims, gifs, last_gif>>
         ELSE \E K \in 0..MaxKinds :
           \E composite \in {c \in Composites :
                                c.methods = Len(method_dirs) /\ c.kinds = K} :
               IF composite.status # "ok"
               THEN /\ Crash(composite.status, 108)
                    /\ UNCHANGED <<task_ind, ims, gifs, last_gif>>
               ELSE IF K = 0
               THEN /\ Crash("IndexError", 250)     \* output_fnames[0]
                    /\ UNCHANGED <<task_ind, ims, gifs, last_gif>>
               ELSE IF args.use_ffmpeg
               THEN \E failed \in {FfFailed(rc) : rc \in 0..MaxReturn} :
                      IF failed                      \* ffmpeg_save_gif
                      THEN /\ Crash("IOError", 81)
                           /\ UNCHANGED <<task_ind, ims, gifs, last_gif>>
                      ELSE Encoded(I, K, composite)
               ELSE Encoded(I, K, composite)         \* save_gif
    /\ UNCHANGED <<args, disk, headings, method_names, method_dirs, method_ids,
                   pair_names, table_rows, num_samples, task_names, sample_ind,
                   image_header, image_rows, saves,
                   concat_vars, ffmpeg_vars, stats_vars>>

\* lines 257-261 and 267-268: the header of the image table, from sample 0
ImageHeader(cells, ids) ==
    <<[txts |-> <<0>> \o [i \in DOMAIN cells |-> cells[i].task],
       colspans |-> <<1>> \o [i \in DOMAIN cells |-> cells[i].inputs + 1]],
      [txts |-> <<[label |-> "id"]>> \o
                Flatten([i \in DOMAIN cells |->
                    <<[label |-> "inputs"], [label |-> "outputs", methods |-> ids]>>]),
       colspans |-> <<1>> \o
                Flatten([i \in DOMAIN cells |-> <<cells[i].inputs, 1>>])]>>

\* lines 266-269
AddImages ==
    /\ pc = "task"
    /\ task_ind > Len(task_names)
    /\ image_header' = IF sample_ind = 0
                       THEN ImageHeader(ims, method_ids.value)
                       ELSE image_header
    /\ image_rows' = Append(image_rows, [txt |-> sample_ind, ims |-> ims])
    /\ pc' = "batch_save"
    /\ UNCHANGED <<args, disk, headings, method_names, method_dirs, method_ids,
                   pair_names, table_rows, num_samples, task_names, sample_ind,
                   task_ind, ims, gifs, last_gif, saves, error,
                   concat_vars, ffmpeg_vars, stats_vars>>

\* the test of line 270 written as `sample_ind % args.batch_size == 0`
BatchFull_offbyone(ind, batch_size) == ind % batch_size = 0

\* line 270: `if (sample_ind + 1) % args.batch_size == 0:`
BatchFull(ind, batch_size) == (ind + 1) % batch_size = 0

\* lines 270-271, and the step of the loop
BatchSave ==
    /\ pc = "batch_save"
    /\ saves' = IF BatchFull(sample_ind, args.batch_size)
                THEN Append(saves, Snapshot(table_rows, image_rows))
                ELSE saves
    /\ sample_ind' = sample_ind + 1
    /\ pc' = "sample"
    /\ UNCHANGED <<args, disk, headings, method_names, method_dirs, method_ids,
                   pair_names, table_rows, num_samples, task_names, task_ind,
                   ims, gifs, last_gif, image_header, image_rows,
                   error, concat_vars, ffmpeg_vars, stats_vars>>

\* line 272
FinalSave ==
    /\ pc = "final_save"
    /\ saves' = Append(saves, Snapshot(table_rows, image_rows))
    /\ pc' = "done"
    /\ UNCHANGED <<args, disk, headings, method_names, method_dirs, method_ids,
                   pair_names, table_rows, num_samples, task_names, sample_ind,
                   task_ind, ims, gifs, last_gif, image_header,
                   image_rows, error, concat_vars, ffmpeg_vars, stats_vars>>

\* ========================================================================
\* specifications
\* ========================================================================

ConcatIdle ==
    /\ all_images = <<>>
    /\ concat_result = [status |-> "none", frames |-> <<>>]
    /\ cpc = "idle"

FfmpegIdle ==
    /\ ff_images = <<>>
    /\ ff_fname = "none"
    /\ ff_pc = "idle"
    /\ ff_spawned = 0
    /\ ff_written = <<>>
    /\ ff_returncode = Unbound
    /\ ff_stderr = ""
    /\ ff_error = [type |-> "none", msg |-> <<>>]

StatsIdle ==
    /\ st_file = <<>>
    /\ st_pc = "idle"
    /\ st_mean = Unbound
    /\ st_se_sq = Unbound
    /\ st_num_samples = 0

MainIdle ==
    /\ args = [sort_by |-> Unbound, show_se |-> FALSE, only_metrics |-> FALSE,
               batch_size |-> 1, use_ffmpeg |-> FALSE]
    /\ disk = <<>>
    /\ headings = <<>>
    /\ method_names = <<>>
    /\ method_dirs = <<>>
    /\ method_ids = Unbound
    /\ pair_names = <<>>
    /\ table_rows = <<>>
    /\ num_samples = Unbound
    /\ task_names = <<>>
    /\ sample_ind = 0
    /\ task_ind = 1
    /\ ims = <<>>
    /\ gifs = 0
    /\ last_gif = [task |-> 0, sample |-> 0, kinds |-> 0, nseqs |-> 0, nframes |-> 0]
    /\ image_header = <<>>
    /\ image_rows = <<>>
    /\ saves = <<>>
    /\ pc = "idle"
    /\ error = [type |-> "none", line |-> 0]

\* main at line 149: arguments parsed, page created, methods listed
Init ==
    /\ args \in [sort_by : {Unbound} \cup {Bound(p) : p \in 1..MaxPairs},
                 show_se : BOOLEAN, only_metrics : BOOLEAN,
                 batch_size : 1..MaxBatch, use_ffmpeg : BOOLEAN]
    /\ disk = <<>>
    /\ headings = <<[h1 |-> "results_dir"]>>
    /\ \E M \in 0..MaxMethods :
          /\ method_names = [i \in 1..M |-> M + 1 - i]
          /\ method_dirs = [i \in 1..M |-> <<"results_dir", M + 1 - i>>]
    /\ method_ids = Unbound
    /\ pair_names = <<>>
    /\ table_rows = <<>>
    /\ num_samples = Unbound
    /\ task_names = <<>>
    /\ sample_ind = 0
    /\ task_ind = 1
    /\ ims = <<>>
    /\ gifs = 0
    /\ last_gif = [task |-> 0, sample |-> 0, kinds |-> 0, nseqs |-> 0, nframes |-> 0]
    /\ image_header = <<>>
    /\ image_rows = <<>>
    /\ saves = <<>>
    /\ pc = "sort"
    /\ error = [type |-> "none", line |-> 0]
    /\ ConcatIdle /\ FfmpegIdle /\ StatsIdle

Next ==
    \/ SortMethods
    \/ Discover
    \/ BuildTable
    \/ CheckOnlyMetrics
    \/ StartImages
    \/ BeginSample
    \/ TaskBody
    \/ AddImages
    \/ BatchSave
    \/ FinalSave

Spec == Init /\ [][Next]_vars

InitConcat ==
    /\ \E lens \in ConcatLens :
         \E shapes \in ShapeLists(lens) : all_images = Stamp(shapes)
    /\ concat_result = [status |-> "none", frames |-> <<>>]
    /\ cpc = "call"
    /\ FfmpegIdle /\ StatsIdle /\ MainIdle

NextConcat == ConcatCall

SpecConcat == InitConcat /\ [][NextConcat]_vars

InitFfmpeg ==
    /\ ff_images \in SeqsUpTo(FfFrames, MaxGifFrames)
    /\ ff_fname = "out.gif"
    /\ ff_pc = "start"
    /\ ff_spawned = 0
    /\ ff_written = <<>>
    /\ ff_returncode = Unbound
    /\ ff_stderr = ""
    /\ ff_error = [type |-> "none", msg |-> <<>>]
    /\ ConcatIdle /\ StatsIdle /\ MainIdle

NextFfmpeg ==
    \/ FfSpawn
    \/ FfWrite
    \/ FfBrokenPipe
    \/ FfCommunicate
    \/ FfCheck

SpecFfmpeg == InitFfmpeg /\ [][NextFfmpeg]_vars

InitStats ==
    /\ \E r \in 1..MaxStatRows, c \in 1..MaxStatCols :
         \E data \in StatData(r, c) : st_file = CsvFile(data)
    /\ st_pc = "load"
    /\ st_mean = Unbound
    /\ st_se_sq = Unbound
    /\ st_num_samples = 0
    /\ ConcatIdle /\ FfmpegIdle /\ MainIdle

NextStats == StatsCompute

SpecStats == InitStats /\ [][NextStats]_vars

\* ========================================================================
\* properties of concat_images (SpecConcat)
\* ========================================================================

SeqLens == {Len(all_images[i]) : i \in DOMAIN all_images}

AllFrames == Flatten(all_images)

\* the smallest height and the smallest width among all the frames
MinH == CHOOSE x \in {AllFrames[k].h : k \in DOMAIN AllFrames} :
            \A k \in DOMAIN AllFrames : x <= AllFrames[k].h
MinW == CHOOSE x \in {AllFrames[k].w : k \in DOMAIN AllFrames} :
            \A k \in DOMAIN AllFrames : x <= AllFrames[k].w

ShortestLen == CHOOSE n \in SeqLens : \A m \in SeqLens : n <= m

\* C2: for a non-empty list of N sequences of equal length L the call returns
\* L composite frames, each of height minH and width minW * N.
C2_CompositeSize ==
    (cpc = "done" /\ all_images # <<>> /\ Cardinality(SeqLens) = 1) =>
        /\ concat_result.status = "ok"
        /\ Len(concat_result.frames) = ShortestLen
        /\ \A t \in DOMAIN concat_result.frames :
              /\ concat_result.frames[t].h = MinH
              /\ concat_result.frames[t].w = MinW * Len(all_images)

\* C6 as stated: called with an empty list, concat_images fails with an error.
C6_EmptyFails ==
    (cpc = "done" /\ all_images = <<>>) => concat_result.status # "ok"

\* C6 amended: called with an empty list, concat_images returns an empty list
\* of composite frames and raises nothing.
C6_EmptyReturnsEmpty ==
    (cpc = "done" /\ all_images = <<>>) =>
        concat_result = [status |-> "ok", frames |-> <<>>]

C6_Witness == cpc = "done" /\ all_images = <<>> /\ concat_result.status = "ok"

\* C7: with sequences of different lengths the call returns, without an
\* error, as many composite frames as the shortest sequence has frames, and
\* composite frame t is made of the t-th frame of every sequence, in order.
C7_ShortestWins ==
    (cpc = "done" /\ Cardinality(SeqLens) > 1) =>
        /\ concat_result.status = "ok"
        /\ Len(concat_result.frames) = ShortestLen
        /\ \A t \in DOMAIN concat_result.frames :
              concat_result.frames[t].parts = [i \in DOMAIN all_images |-> <<i, t>>]

\* ========================================================================
\* properties of ffmpeg_save_gif (SpecFfmpeg)
\* ========================================================================

Waited == ff_returncode.bound

\* C8: every frame is written to the process's input, in order, before the
\* process is waited on; a non-zero exit status makes the call fail with an
\* error carrying the command line and the diagnostic output, the process is
\* spawned once only, and a zero exit status makes the call return normally.
C8_WriteThenWait ==
    /\ ff_spawned <= 1
    /\ Waited =>
          /\ ff_spawned = 1
          /\ ff_written = [k \in DOMAIN ff_images |-> tostring(ff_images[k])]
    /\ (Waited /\ ff_returncode.value # 0) =>
          /\ ff_pc \in {"check", "raised"}
          /\ ff_pc = "raised" =>
                /\ ff_error.type = "IOError"
                /\ ff_error.msg[1] = [prog |-> "ffmpeg", r |-> 400,
                                      s |-> <<ff_images[1].w, ff_images[1].h>>,
                                      out |-> ff_fname]
                /\ ff_error.msg[2] = ff_stderr
    /\ (Waited /\ ff_returncode.value = 0) =>
          /\ ff_pc \in {"check", "returned"}
          /\ ff_error.type = "none"
    /\ ff_pc = "returned" => (Waited /\ ff_returncode.value = 0)

C8_Witness ==
    /\ ff_pc = "raised"
    /\ ff_error.type = "IOError"
    /\ ff_error.msg[2] = "diag"
    /\ Len(ff_written) = MaxGifFrames

\* ========================================================================
\* properties of the statistics (SpecStats)
\* ========================================================================

\* the data cells of the csv file: neither the header row, nor the id
\* column, nor the mean column
DataCells ==
    {<<i, j>> : i \in 2..Len(st_file), j \in 2..(Len(st_file[1]) - 1)}

\* the sum of f[c] over the c in S
RECURSIVE SumOver(_, _)
SumOver(S, f) ==
    IF S = {} THEN 0
    ELSE LET c == CHOOSE x \in S : TRUE IN f[c] + SumOver(S \ {c}, f)

CellValue  == [c \in DataCells |-> st_file[c[1]][c[2]]]
CellSquare == [c \in DataCells |-> st_file[c[1]][c[2]] * st_file[c[1]][c[2]]]

NumRows  == Len(st_file) - 1
NumCells == Cardinality(DataCells)

\* N * sum(x^2) - sum(x)^2: N^2 times the population variance of the cells
ScaledVariance ==
    NumCells * SumOver(DataCells, CellSquare)
        - SumOver(DataCells, CellValue) * SumOver(DataCells, CellValue)

\* C9 as stated: the standard error is the sample standard deviation (n-1
\* denominator) of the table's values divided by the square root of the
\* number of rows.
C9_SampleStd ==
    (st_pc = "done" /\ NumCells > 1) =>
        st_se_sq.num * (NumCells * (NumCells - 1) * NumRows)
            = ScaledVariance * st_se_sq.den

\* C9 amended: the standard error is the population standard deviation
\* (denominator: the number of cells) of all the table's values divided by the
\* square root of the number of rows.
C9_PopulationStd ==
    st_pc = "done" =>
        /\ st_num_samples = NumRows
        /\ st_se_sq.num * (NumCells * NumCells * NumRows)
              = ScaledVariance * st_se_sq.den

C9_Witness ==
    /\ st_pc = "done"
    /\ NumRows = 2 /\ NumCells = 4
    /\ st_se_sq.num > 0

\* ========================================================================
\* properties of main (Spec)
\* ========================================================================

NumMethods == Len(method_dirs)

\* Init names the method at original index k (from 0) NumMethods - k
OrigIndex(name) == NumMethods - name

FileMean(dir, p) == np_mean(load_metrics(disk[<<DirKey(dir), p>>]))

TableReached ==
    \/ pc \in {"only_metrics", "images", "sample", "task", "batch_save",
               "final_save", "done"}
    \/ pc = "crashed" /\ error.line \notin {155, 160}

DataRows == SubSeq(table_rows, 3, Len(table_rows))

\* C1: sorted or not, the metrics table has one data row per method, in
\* method order, that starts with the method's original index and its name,
\* followed by one mean cell per (task, metric) pair with 4 decimals.
C1_OneRowPerMethod ==
    TableReached =>
        /\ Len(DataRows) = NumMethods
        /\ \A i \in 1..NumMethods :
              LET txts == DataRows[i].txts
                  step == IF args.show_se THEN 2 ELSE 1
              IN  /\ txts[1] = [id |-> OrigIndex(method_names[i])]
                  /\ txts[2] = [name |-> method_names[i]]
                  /\ Len(txts) = 2 + step * Len(pair_names)
                  /\ \A p \in DOMAIN pair_names :
                        txts[2 + step * (p - 1) + 1]
                            = Fmt4(FileMean(method_dirs[i], p))

Sorted == args.sort_by.bound /\ pc \notin {"sort"} /\ error.line # 155

\* C5: with a sort specification the method order is a permutation of the
\* methods, ascending by the mean of the chosen table, equal means in
\* ascending original index, and index, name and directory stay together.
C5_SortOrder ==
    Sorted =>
        /\ method_ids.bound
        /\ Len(method_ids.value) = NumMethods
        /\ Len(method_names) = NumMethods
        /\ {method_ids.value[i] : i \in 1..NumMethods} = 0..(NumMethods - 1)
        /\ \A i \in 1..NumMethods :
              /\ method_names[i] = NumMethods - method_ids.value[i]
              /\ method_dirs[i] = <<"results_dir", NumMethods - method_ids.value[i]>>
        /\ \A i \in 1..(NumMethods - 1) :        \* each method and the next
              LET j == i + 1
                  mi == FileMean(method_dirs[i], args.sort_by.value)
                  mj == FileMean(method_dirs[j], args.sort_by.value)
              IN  \/ RatLess(mi, mj)
                  \/ mi = mj /\ method_ids.value[i] < method_ids.value[j]

C5_Witness ==
    /\ Sorted
    /\ method_ids = Bound(<<1, 2, 0>>)
    /\ FileMean(method_dirs[1], args.sort_by.value)
          = FileMean(method_dirs[2], args.sort_by.value)
    /\ RatLess(FileMean(method_dirs[2], args.sort_by.value),
               FileMean(method_dirs[3], args.sort_by.value))

InLoop == pc \in {"task", "batch_save"} \/ (pc = "crashed" /\ error.line \in {31, 108, 250, 81})

PairsDone ==
    sample_ind * Len(task_names) + (IF InLoop THEN task_ind - 1 ELSE 0)

\* C3 as stated: a (task, sample) with K output kinds gets K animations, each
\* compositing exactly one frame sequence per method.
C3_OnePerKind ==
    (pc = "task" /\ task_ind > 1) =>
        /\ gifs - (PairsDone - 1) = last_gif.kinds
        /\ last_gif.nseqs = NumMethods

\* C3 amended: exactly one animation is encoded per (task, sample) pair
\* processed, whatever the number K of output kinds; it composites K * M
\* frame sequences, one per (output kind, method).
C3_OnePerTaskSample ==
    /\ gifs = PairsDone
    /\ (pc = "task" /\ task_ind > 1) =>
          /\ last_gif.task = task_names[task_ind - 1]
          /\ last_gif.sample = sample_ind
          /\ last_gif.kinds >= 1
          /\ last_gif.nseqs = last_gif.kinds * NumMethods

C3_Witness ==
    /\ pc = "task" /\ task_ind > 1
    /\ last_gif.kinds = 2
    /\ NumMethods >= 2
    /\ sample_ind = 1

ImagePhase ==
    \/ pc \in {"sample", "task", "batch_save", "final_save"}
    \/ pc = "done" /\ ~args.only_metrics
    \/ pc = "crashed" /\ error.line \in {31, 108, 250, 81, 219}

\* the saves of the image phase: all but the one of line 203
ImageSaves == Len(saves) - 1

\* C4: with N samples and batch size B the report is persisted after the row
\* of sample s whenever (s+1) is a multiple of B, before sample s+1 starts,
\* and once more after the last sample: N div B + 1 persists in all, each
\* holding every row registered so far, and never more than B rows are
\* registered but not persisted.
C4_BatchPersist ==
    ImagePhase =>
        LET B == args.batch_size
            N == num_samples.value
            rows_then == IF pc \in {"task", "crashed"} THEN sample_ind
                         ELSE IF pc = "batch_save" THEN sample_ind + 1
                         ELSE sample_ind
            done_saves == IF pc = "batch_save" THEN sample_ind \div B
                          ELSE rows_then \div B
        IN  /\ pc # "done" => ImageSaves = done_saves
            /\ pc = "done" => ImageSaves = (N \div B) + 1
            /\ \A k \in 1..ImageSaves :
                  saves[k + 1].images = IF k <= N \div B THEN k * B ELSE N
            /\ Len(image_rows) - saves[Len(saves)].images <= B
            /\ (pc = "sample" /\ sample_ind > 0 /\ sample_ind % B = 0) =>
                  saves[Len(saves)].images = sample_ind

C4_Witness ==
    /\ pc = "done" /\ ~args.only_metrics
    /\ num_samples = Bound(2)
    /\ args.batch_size = 2
    /\ ImageSaves = 2

====
